---- MODULE Spec2Model ----
(***************************************************************************)
(* rust-gitgrep (src/src/main.rs): grep over the whole history of a git    *)
(* repository.                                                             *)
(*                                                                         *)
(*   LineSpec  process_file on one byte buffer: decoding, find_iter and    *)
(*             the newline scan that yields line number and line span.     *)
(*   Spec      process_files_git: the frontier loop over the commit graph  *)
(*             and ProcessTree::process over each commit's tree.           *)
(*   FairSpec  the same loop under weak fairness, from every graph shape,  *)
(*             for termination.                                            *)
(*                                                                         *)
(* Offsets are 0-based as in the source; a TLA+ sequence is 1-based, so    *)
(* the byte at offset i of s is s[i + 1].                                  *)
(***************************************************************************)
EXTENDS Integers, Sequences, FiniteSets, TLC

VARIABLES
    settings,         \* Settings: pattern, once_file, output_grouping, ignore_dirs
    pc,               \* control position of the run
    out,              \* the lines printed to stdout so far
    input,            \* LineSpec: the blob content handed to process_file
    k,                \* LineSpec: number of matches of find_iter consumed
    ret,              \* LineSpec: process_file's `ret`
    visited,          \* LineSpec: the `visited` flag of the owning commit
    line,             \* LineSpec: line_number, line_start, line_end of the last scan
    repo,             \* the repository: parents, root tree, failing lookups
    checked_commits,  \* HashMap<Oid, bool>: commit -> its header was printed
    next_refs,        \* the current frontier
    idx,              \* position of the `for commit in &next_refs` loop (1-based)
    process_tree,     \* ProcessTree: the dedup sets, counters and all_matches
    invoked,          \* history: the commits process() was called for, in order
    scans,            \* history: the process_file calls: blob, commit, path
    descended,        \* history: the trees whose entries were iterated, in order
    enqueued          \* history: how often each commit was placed in a frontier

lvars == <<input, k, ret, visited, line>>

wvars == <<repo, checked_commits, next_refs, idx, process_tree,
           invoked, scans, descended, enqueued>>

vars == <<settings, pc, out, lvars, wvars>>

---------------------------------------------------------------------------
(* Bounds *)

\* longest byte buffer LineSpec hands to process_file
MaxLen == 4

\* usize arithmetic is kept modulo 2^UsizeBits (any width above the buffer
\* lengths gives the same comparisons as the 64-bit build)
UsizeBits == 16

UsizeModulus == 2 ^ UsizeBits

---------------------------------------------------------------------------
(* Bytes and text *)

NL == 10

\* b'\n', 'a', and the two bytes of U+00E9; 169 alone or 195 alone is not UTF-8
Bytes == {NL, 97, 195, 169}

RECURSIVE SeqsUpTo(_, _)
SeqsUpTo(S, n) ==
    IF n = 0 THEN {<<>>}
    ELSE LET shorter == SeqsUpTo(S, n - 1)
         IN  shorter \cup {Append(s, x) : s \in {t \in shorter : Len(t) = n - 1}, x \in S}

Inputs == SeqsUpTo(Bytes, MaxLen)

\* the patterns tried: literals, among them the empty one and ones holding a newline
Patterns == {<< >>, <<97>>, <<NL>>, <<97, NL>>, <<195, 169>>}

Min2(a, b) == IF a <= b THEN a ELSE b
Max2(a, b) == IF a >= b THEN a ELSE b
MinOf(S) == CHOOSE x \in S : \A y \in S : x <= y

IsCont(b) == b >= 128 /\ b <= 191

\* length of the UTF-8 sequence a lead byte opens, 0 for a byte that opens none
CharLen(b) ==
    IF b < 128 THEN 1
    ELSE IF b >= 194 /\ b <= 223 THEN 2
    ELSE IF b >= 224 /\ b <= 239 THEN 3
    ELSE IF b >= 240 /\ b <= 244 THEN 4
    ELSE 0

RECURSIVE IsUtf8From(_, _)
IsUtf8From(bytes, i) ==
    IF i >= Len(bytes) THEN TRUE
    ELSE LET n == CharLen(bytes[i + 1])
         IN  /\ n > 0
             /\ i + n <= Len(bytes)
             /\ \A j \in 1 .. (n - 1) : IsCont(bytes[i + 1 + j])
             /\ IsUtf8From(bytes, i + n)

\* std::str::from_utf8(&input).is_ok()
from_utf8(bytes) == IsUtf8From(bytes, 0)

\* str::is_char_boundary
is_char_boundary(s, i) ==
    \/ i = 0
    \/ i = Len(s)
    \/ (i < Len(s) /\ ~IsCont(s[i + 1]))

\* &input_str[begin..end] panics unless this holds
SliceOk(s, begin, end) ==
    /\ begin <= end
    /\ end <= Len(s)
    /\ is_char_boundary(s, begin)
    /\ is_char_boundary(s, end)

Slice(s, begin, end) == SubSeq(s, begin + 1, end)

---------------------------------------------------------------------------
(* settings.pattern.find_iter(&input_str), for a literal pattern: leftmost *)
(* non-overlapping matches; the empty pattern matches at every character   *)
(* boundary.                                                               *)

MatchesAt(pat, text, s) ==
    /\ s + Len(pat) <= Len(text)
    /\ is_char_boundary(text, s)
    /\ SubSeq(text, s + 1, s + Len(pat)) = pat

RECURSIVE FindFrom(_, _, _)
FindFrom(pat, text, pos) ==
    LET cands == {s \in pos .. Len(text) : MatchesAt(pat, text, s)}
    IN  IF cands = {} THEN << >>
        ELSE LET s == MinOf(cands)
                 e == s + Len(pat)
                 next == IF e > s THEN e
                         ELSE IF s < Len(text) THEN s + CharLen(text[s + 1])
                         ELSE s + 1
             IN  <<[start |-> s, end |-> e]>> \o FindFrom(pat, text, next)

find_iter(pat, text) == FindFrom(pat, text, 0)

---------------------------------------------------------------------------
(* process_file, lines 298-312: the newline scan of one match              *)

\* (i as isize - 1) as usize
WrapPred(i) == (i - 1) % UsizeModulus

RECURSIVE ScanLines(_, _, _, _)
ScanLines(bytes, found, i, st) ==
    IF i >= Len(bytes) THEN st
    ELSE IF bytes[i + 1] # NL THEN ScanLines(bytes, found, i + 1, st)
    ELSE LET ln == st.line_number + 1
             ls == IF i < found.start THEN Min2(i + 1, Len(bytes)) ELSE st.line_start
         IN  IF found.end <= i
             THEN [line_number |-> ln, line_start |-> ls,
                   line_end |-> Max2(WrapPred(i), ls)]
             ELSE ScanLines(bytes, found, i + 1,
                            [line_number |-> ln, line_start |-> ls,
                             line_end |-> st.line_end])

LineOf(bytes, found) ==
    ScanLines(bytes, found, 0, [line_number |-> 1, line_start |-> 0, line_end |-> 0])

NoLine == [line_number |-> 0, line_start |-> 0, line_end |-> 0]

NoCommit == "none"

\* what the loop body of lines 288-347 computes for one match before it
\* prints: the match, the scan's result, whether the slice of line 323/339
\* is valid, and the sliced text
MatchInfo(bytes, found) ==
    LET ln == LineOf(bytes, found)
        ok == SliceOk(bytes, ln.line_start, ln.line_end)
    IN  [start |-> found.start, end |-> found.end, line |-> ln, ok |-> ok,
         text |-> IF ok THEN Slice(bytes, ln.line_start, ln.line_end) ELSE << >>]

\* lines 282-288: no match for content that is not UTF-8, else find_iter's
FileScan(pat, bytes) ==
    IF ~from_utf8(bytes) THEN << >>
    ELSE LET founds == find_iter(pat, bytes)
         IN  [i \in 1 .. Len(founds) |-> MatchInfo(bytes, founds[i])]

\* One iteration of the `for found in ...` loop (lines 288-347) on the
\* record s = [ret, out, visited, panic, line]; both colour branches print
\* the same fields, so one is modelled.
MatchStep(s, cfg, commit, filepath, m) ==
    LET entry  == [commit |-> commit, path |-> filepath,
                   start |-> m.start, end |-> m.end]
        header == cfg.output_grouping /\ ~s.visited
        out1   == IF header THEN Append(s.out, [kind |-> "commit", commit |-> commit])
                  ELSE s.out
        text   == [kind |-> "line",
                   commit |-> IF cfg.output_grouping THEN NoCommit ELSE commit,
                   path |-> filepath,
                   line_number |-> m.line.line_number,
                   text |-> m.text]
    IN  [ret     |-> Append(s.ret, entry),
         out     |-> IF m.ok THEN Append(out1, text) ELSE out1,
         visited |-> s.visited \/ header,
         panic   |-> ~m.ok,
         line    |-> m.line]

RECURSIVE MatchLoop(_, _, _, _, _, _)
MatchLoop(s, cfg, commit, filepath, ms, i) ==
    IF i > Len(ms) \/ s.panic THEN s
    ELSE MatchLoop(MatchStep(s, cfg, commit, filepath, ms[i]),
                   cfg, commit, filepath, ms, i + 1)

\* process_file as one call, given the matches of its content:
\* [ret, out, visited, panic, line]
process_file(cfg, commit, ms, filepath, vis, printed) ==
    MatchLoop([ret |-> << >>, out |-> printed, visited |-> vis,
               panic |-> FALSE, line |-> NoLine],
              cfg, commit, filepath, ms, 1)

---------------------------------------------------------------------------
(* Names, Opt and Settings                                                 *)

\* a file or directory name is its sequence of characters
a_rs    == <<"a", ".", "r", "s">>
b_rs    == <<"b", ".", "r", "s">>
c_rs    == <<"c", ".", "r", "s">>
d_rs    == <<"d", ".", "r", "s">>
p_rs    == <<"p", ".", "r", "s">>
x_rs    == <<"x", ".", "r", "s">>
U_RS    == <<"U", ".", "R", "S">>
n_txt   == <<"n", ".", "t", "x", "t">>
README  == <<"R", "E", "A", "D", "M", "E">>
skip_rs == <<"s", "k", "i", "p", ".", "r", "s">>
lib_rs  == <<"l", "i", "b", ".", "r", "s">>
old_rs  == <<"o", "l", "d", ".", "r", "s">>
gen_rs  == <<"g", "e", "n", ".", "r", "s">>
src     == <<"s", "r", "c">>
lib     == <<"l", "i", "b">>
sub     == <<"s", "u", "b">>
z_rs    == <<"z", ".", "r", "s">>
target  == <<"t", "a", "r", "g", "e", "t">>

\* lines 93-96
default_exts ==
    { <<".", "s", "h">>, <<".", "j", "s">>, <<".", "t", "c", "l">>, <<".", "p", "l">>,
      <<".", "p", "y">>, <<".", "r", "b">>, <<".", "c">>, <<".", "c", "p", "p">>,
      <<".", "h">>, <<".", "r", "c">>, <<".", "r", "c", "i">>, <<".", "d", "l", "g">>,
      <<".", "p", "a", "s">>, <<".", "d", "p", "r">>, <<".", "c", "s">>, <<".", "r", "s">> }

\* line 97
default_ignore_dirs ==
    { <<".", "h", "g">>, <<".", "s", "v", "n">>, <<".", "g", "i", "t">>,
      <<".", "b", "z", "r">>,
      <<"n", "o", "d", "e", "_", "m", "o", "d", "u", "l", "e", "s">>, target }

SeqRange(q) == {q[i] : i \in 1 .. Len(q)}

\* Settings::try_from(Opt), lines 92-132; ext[1..] drops the leading dot
try_from(opt) ==
    [pattern         |-> opt.pattern,
     once_file       |-> ~opt.no_once_file,
     output_grouping |-> ~opt.no_output_grouping,
     extensions      |-> IF opt.extensions = << >>
                         THEN {Tail(ext) : ext \in default_exts}
                         ELSE {Tail(ext) : ext \in default_exts}
                              \cup {Tail(ext) : ext \in SeqRange(opt.extensions)},
     ignore_dirs     |-> IF opt.ignore_dirs = << >>
                         THEN default_ignore_dirs
                         ELSE default_ignore_dirs \cup SeqRange(opt.ignore_dirs)]

\* the command lines tried: `-i skip.rs`, with and without -o and -g
Opts(patterns) ==
    {[pattern |-> p, no_once_file |-> o, no_output_grouping |-> g,
      extensions |-> << >>, ignore_dirs |-> <<skip_rs>>] :
        p \in patterns, o \in BOOLEAN, g \in BOOLEAN}

UpperChars == <<"A", "B", "C", "D", "E", "F", "G", "H", "I", "J", "K", "L", "M",
                "N", "O", "P", "Q", "R", "S", "T", "U", "V", "W", "X", "Y", "Z">>
LowerChars == <<"a", "b", "c", "d", "e", "f", "g", "h", "i", "j", "k", "l", "m",
                "n", "o", "p", "q", "r", "s", "t", "u", "v", "w", "x", "y", "z">>

LowerChar(ch) ==
    IF \E j \in 1 .. 26 : UpperChars[j] = ch
    THEN LowerChars[CHOOSE j \in 1 .. 26 : UpperChars[j] = ch]
    ELSE ch

to_ascii_lowercase(name) == [i \in 1 .. Len(name) |-> LowerChar(name[i])]

NoExt == [some |-> FALSE, ext |-> << >>]

\* PathBuf::from(name).extension(): nothing for a name without a dot, for
\* "..", and for a name whose only dot is its first character
extension(name) ==
    LET dots == {i \in 1 .. Len(name) : name[i] = "."}
    IN  IF name = <<".", ".">> \/ dots = {} THEN NoExt
        ELSE LET last == CHOOSE i \in dots : \A j \in dots : j <= i
             IN  IF last = 1 THEN NoExt
                 ELSE [some |-> TRUE, ext |-> SubSeq(name, last + 1, Len(name))]

\* lines 186-187: the extension, lower-cased
LowerExtension(name) ==
    LET e == extension(name)
    IN  IF e.some THEN [some |-> TRUE, ext |-> to_ascii_lowercase(e.ext)] ELSE NoExt

---------------------------------------------------------------------------
(* The repository: commits, trees, blobs                                   *)

\* commit identifiers, oldest last: a parent comes later in this order
CommitOrder == <<"c1", "c2", "c3", "c4">>
Commits == SeqRange(CommitOrder)
Rank(c) == CHOOSE i \in 1 .. Len(CommitOrder) : CommitOrder[i] = c

\* repo.head()?.peel_to_commit()
HeadCommit == CommitOrder[1]

\* most parents a commit has
MaxParents == 2

IsInjective(q) == \A i, j \in 1 .. Len(q) : q[i] = q[j] => i = j

\* the parent lists commit c may have
ParentLists(c) ==
    {q \in SeqsUpTo(Commits, MaxParents) :
        IsInjective(q) /\ \A i \in 1 .. Len(q) : Rank(q[i]) > Rank(c)}

Graphs ==
    {[c1 |-> p1, c2 |-> p2, c3 |-> p3, c4 |-> p4] :
        p1 \in ParentLists("c1"), p2 \in ParentLists("c2"),
        p3 \in ParentLists("c3"), p4 \in ParentLists("c4")}

\* the pattern searched for in the history walk
WalkPattern == <<97>>

\* A blob's identifier is its content (content addressing).
bM   == <<97, NL>>
bM2  == <<98, 97, NL>>
bM3  == <<97, 98, NL>>
bN   == <<98, NL>>
bN2  == <<98, 98, NL>>
bOld == <<97, NL, NL>>
bGen == <<97, 97, NL>>
bSk  == <<97, 98, 97, NL>>
bR   == <<97>>
bT   == <<97, 97>>
bBin == <<97, 0, NL>>
bBad == <<97, 255, NL>>
bP   == <<NL, 97>>

File(name, id) == [name |-> name, kind |-> "blob", id |-> id, ok |-> TRUE]
Dir(name, id)  == [name |-> name, kind |-> "tree", id |-> id, ok |-> TRUE]
\* a submodule entry: its commit is not in this repository, to_object fails
Submodule(name) == [name |-> name, kind |-> "commit", id |-> "none", ok |-> FALSE]

\* The trees of the object store, entries in git's name order. A tree's
\* identifier stands for its content: two different identifiers list
\* different entries.
Trees ==
    [R1 |-> <<File(a_rs, bM), File(b_rs, bN), Dir(src, "S1")>>,
     R2 |-> <<File(a_rs, bM), File(b_rs, bN2), Dir(src, "S1")>>,
     R3 |-> <<File(README, bR), File(U_RS, bM3), File(a_rs, bM2),
              File(c_rs, bM), Dir(lib, "S1"), File(n_txt, bT),
              File(skip_rs, bSk), Dir(src, "S2"), Submodule(sub),
              Dir(target, "G"), File(x_rs, bBin), File(z_rs, bBad)>>,
     R4 |-> <<File(p_rs, bP)>>,
     R5 |-> <<File(d_rs, bM2)>>,
     S1 |-> <<File(lib_rs, bN)>>,
     S2 |-> <<File(lib_rs, bN), File(old_rs, bOld)>>,
     G  |-> <<File(gen_rs, bGen)>>]

TreeIds == DOMAIN Trees

TreeEntries(t) == Trees[t]

StoreEntries == UNION {SeqRange(Trees[t]) : t \in TreeIds}
StoreNames == {e.name : e \in StoreEntries}
StoreBlobs == {e.id : e \in {x \in StoreEntries : x.kind = "blob"}}

\* LowerExtension and FileScan of the store's names and blobs, evaluated once
StoreExtension == [name \in StoreNames |-> LowerExtension(name)] @@ << >>
StoreScan == [bytes \in StoreBlobs |-> FileScan(WalkPattern, bytes)] @@ << >>

RECURSIVE Closure(_, _, _)
Closure(g, S, i) ==
    IF i > Len(CommitOrder) THEN S
    ELSE Closure(g, IF CommitOrder[i] \in S THEN S \cup SeqRange(g[CommitOrder[i]]) ELSE S,
                 i + 1)

\* the commits HEAD reaches through parent edges in graph g
ReachableIn(g) == Closure(g, {HeadCommit}, 1)

\* Commit identifiers carry no meaning and a commit HEAD does not reach
\* takes no part in a run, so repositories are taken up to renaming: the
\* reachable commits come first in CommitOrder, the others are bare roots.
Canonical(g, t) ==
    LET R == ReachableIn(g)
    IN  /\ \A c \in R : \A d \in Commits : Rank(d) < Rank(c) => d \in R
        /\ \A c \in Commits \ R : g[c] = << >> /\ t[c] = "R1"

TreeMaps(g, roots) == {t \in [Commits -> roots] : Canonical(g, t)}

\* repositories in which every lookup succeeds and no content makes
\* process_file panic
SoundRepos(g) ==
    {[parents |-> g, tree |-> t, missing |-> {}, notree |-> {}] :
        t \in TreeMaps(g, {"R1", "R2", "R3"})}

\* repositories with one irregularity at a reachable commit c: commit.tree()
\* fails for c, or find_commit(c) fails, or c's tree holds the file on which
\* process_file panics
FaultyRepos(g) ==
    LET maps == TreeMaps(g, {"R1", "R3"})
        R == ReachableIn(g)
    IN  {[parents |-> g, tree |-> t, missing |-> {}, notree |-> {c}] :
            t \in maps, c \in R}
        \cup {[parents |-> g, tree |-> t, missing |-> {c}, notree |-> {}] :
                 t \in maps, c \in R \ {HeadCommit}}
        \cup {[parents |-> g, tree |-> [t EXCEPT ![c] = "R4"],
               missing |-> {}, notree |-> {}] : t \in maps, c \in R}

\* repositories without irregularity in which one reachable commit holds
\* a content of R3 under another path
MovedRepos(g) ==
    {[parents |-> g, tree |-> [t EXCEPT ![c] = "R5"], missing |-> {}, notree |-> {}] :
        t \in TreeMaps(g, {"R1", "R3"}), c \in ReachableIn(g)}

Repos == UNION {SoundRepos(g) \cup FaultyRepos(g) \cup MovedRepos(g) : g \in Graphs}

\* blob.is_binary(): within these contents, a NUL byte
is_binary(bytes) == \E i \in 1 .. Len(bytes) : bytes[i] = 0

---------------------------------------------------------------------------
(* ProcessTree::process, lines 147-206, on the record                      *)
(*   w = [checked_paths, checked_blobs, checked_trees, walked,             *)
(*        skipped_blobs, all_matches, visited, out, scans, descended,      *)
(*        panic]                                                           *)

\* a walk without the tree set
TreeCheckedNever(w, tree) == FALSE

\* line 148
TreeChecked(w, tree) == tree \in w.checked_trees

\* a walk without the path set
PathCheckedNever(cfg, w, entry_path) == FALSE

\* a walk that skips a seen path whatever once_file is
PathCheckedAlways(cfg, w, entry_path) == entry_path \in w.checked_paths

\* line 160
PathChecked(cfg, w, entry_path) == cfg.once_file /\ entry_path \in w.checked_paths

\* a walk without the blob set
BlobCheckedNever(w, blob) == FALSE

\* line 191
BlobChecked(w, blob) == blob \in w.checked_blobs

\* line 177
IsIgnored(cfg, name) == name \in cfg.ignore_dirs

\* a walk that takes every file name
ExtensionListedAlways(cfg, name) == TRUE

\* lines 186-189
ExtensionListed(cfg, name) ==
    LET e == IF name \in StoreNames THEN StoreExtension[name] ELSE LowerExtension(name)
    IN  e.some /\ e.ext \in cfg.extensions

\* settings.pattern.find_iter(&input_str) on a blob, with what each match yields
Matches(cfg, bytes) ==
    IF cfg.pattern = WalkPattern /\ bytes \in StoreBlobs THEN StoreScan[bytes]
    ELSE FileScan(cfg.pattern, bytes)

\* lines 191-198
ScanBlob(w, cfg, entry, commit, entry_path) ==
    IF BlobChecked(w, entry.id)
    THEN [w EXCEPT !.skipped_blobs = @ + 1]
    ELSE LET r == process_file(cfg, commit, Matches(cfg, entry.id), entry_path,
                                   w.visited, w.out)
         IN  [w EXCEPT !.checked_blobs = @ \cup {entry.id},
                       !.scans = Append(@, [blob |-> entry.id, commit |-> commit,
                                            path |-> entry_path]),
                       !.visited = r.visited,
                       !.out = r.out,
                       !.panic = r.panic,
                       !.all_matches = IF r.panic THEN @ ELSE @ \o r.ret]

RECURSIVE process(_, _, _, _, _)
RECURSIVE ProcessEntries(_, _, _, _, _, _)

\* the closure of lines 155-199 and the match on its result
ProcessEntry(w, cfg, entry, commit, path) ==
    LET entry_path == Append(path, entry.name)
    IN  IF PathChecked(cfg, w, entry_path) THEN w
        ELSE LET w1 == [w EXCEPT !.checked_paths = @ \cup {entry_path}]
             IN  IF ~entry.ok THEN w1
                 ELSE IF entry.kind = "tree"
                      THEN process(w1, cfg, entry.id, commit, entry_path)
                 ELSE IF entry.kind # "blob" \/ IsIgnored(cfg, entry.name) THEN w1
                 ELSE IF is_binary(entry.id) THEN w1
                 ELSE IF ~ExtensionListed(cfg, entry.name) THEN w1
                 ELSE ScanBlob(w1, cfg, entry, commit, entry_path)

\* `for entry in tree`; a panic in process_file ends the run
ProcessEntries(w, cfg, entries, i, commit, path) ==
    IF i > Len(entries) \/ w.panic THEN w
    ELSE ProcessEntries(ProcessEntry(w, cfg, entries[i], commit, path),
                        cfg, entries, i + 1, commit, path)

process(w, cfg, tree, commit, path) ==
    IF TreeChecked(w, tree) THEN w
    ELSE ProcessEntries([w EXCEPT !.checked_trees = @ \cup {tree},
                                  !.walked = @ + 1,
                                  !.descended = Append(@, tree)],
                        cfg, TreeEntries(tree), 1, commit, path)

---------------------------------------------------------------------------
(* process_files_git, lines 209-270                                        *)

\* HashMap::contains_key
contains_key(checked, id) == id \in DOMAIN checked

\* a loop that never looks at checked_commits
CommitCheckedNever(checked, id) == FALSE

\* line 233
CommitChecked(checked, id) == contains_key(checked, id)

\* checked_commits.entry(id).or_insert(false), then the flag process_file set
Insert(checked, id, flag) ==
    [c \in DOMAIN checked \cup {id} |-> IF c = id THEN flag ELSE checked[c]]

\* a walk that follows first parents only
first_parent_id(c) ==
    IF repo.parents[c] = << >> THEN << >> ELSE <<repo.parents[c][1]>>

RECURSIVE ParentsOfAll(_, _)
ParentsOfAll(q, i) ==
    IF i > Len(q) THEN << >> ELSE repo.parents[q[i]] \o ParentsOfAll(q, i + 1)

\* a walk that puts a commit's grandparents into the frontier ahead of its
\* parents
grandparent_and_parent_ids(c) == ParentsOfAll(repo.parents[c], 1) \o repo.parents[c]

\* a walk that drops the parents of a commit whose tree does not resolve
parent_ids_of_resolved(c) == IF c \in repo.notree THEN << >> ELSE repo.parents[c]

\* Commit::parent_ids
parent_ids(c) == repo.parents[c]

RECURSIVE FlatParents(_, _)
FlatParents(refs, i) ==
    IF i > Len(refs) THEN << >>
    ELSE parent_ids(refs[i]) \o FlatParents(refs, i + 1)

\* a frontier that takes visited commits in again
UnvisitedAlways(checked, id) == TRUE

\* line 250
Unvisited(checked, id) == ~contains_key(checked, id)

\* lines 246-250: the parents of the frontier that are not checked yet
NextIds(refs, checked) ==
    SelectSeq(FlatParents(refs, 1), LAMBDA id : Unvisited(checked, id))

\* a lookup that never fails
find_commit_always(id) == TRUE

\* line 251: repo.find_commit(id) is Ok
find_commit(id) == id \notin repo.missing

\* a loop without its break
LoopExitNever(refs) == FALSE

\* line 265
LoopExit(refs) == refs = << >>

Count(q, x) == Cardinality({i \in 1 .. Len(q) : q[i] = x})

Enqueue(counts, refs) == [c \in Commits |-> counts[c] + Count(refs, c)]

EmptyMap == [c \in {} |-> FALSE]

NewProcessTree ==
    [checked_paths |-> {}, checked_blobs |-> {}, checked_trees |-> {},
     walked |-> 0, skipped_blobs |-> 0, all_matches |-> << >>]

IdleRepo == [parents |-> [c \in Commits |-> << >>], tree |-> [c \in Commits |-> "R1"],
             missing |-> {}, notree |-> {}]

\* process_files_git is entered with the settings and the repository of the
\* run, the starting commit alone in the frontier
Start(cfgs, repos) ==
    /\ settings \in cfgs
    /\ repo \in repos
    /\ pc = "walk"
    /\ out = << >>
    /\ checked_commits = EmptyMap
    /\ next_refs = <<HeadCommit>>
    /\ idx = 1
    /\ process_tree = NewProcessTree
    /\ invoked = << >>
    /\ scans = << >>
    /\ descended = << >>
    /\ enqueued = Enqueue([c \in Commits |-> 0], <<HeadCommit>>)
    /\ input = << >>
    /\ k = 0
    /\ ret = << >>
    /\ visited = FALSE
    /\ line = NoLine

InLoop == pc = "walk" /\ idx <= Len(next_refs)

\* lines 233-235
SkipChecked ==
    /\ InLoop
    /\ CommitChecked(checked_commits, next_refs[idx])
    /\ idx' = idx + 1
    /\ UNCHANGED <<settings, pc, out, lvars, repo, checked_commits, next_refs,
                   process_tree, invoked, scans, descended, enqueued>>

\* lines 236-242: the commit is marked, its tree does not resolve
SkipNoTree ==
    /\ InLoop
    /\ ~CommitChecked(checked_commits, next_refs[idx])
    /\ next_refs[idx] \in repo.notree
    /\ checked_commits' = Insert(checked_commits, next_refs[idx], FALSE)
    /\ idx' = idx + 1
    /\ UNCHANGED <<settings, pc, out, lvars, repo, next_refs,
                   process_tree, invoked, scans, descended, enqueued>>

\* lines 236-244: the commit is marked and its root tree walked
WalkCommit ==
    /\ InLoop
    /\ ~CommitChecked(checked_commits, next_refs[idx])
    /\ next_refs[idx] \notin repo.notree
    /\ LET commit == next_refs[idx]
           w0 == [checked_paths |-> process_tree.checked_paths,
                  checked_blobs |-> process_tree.checked_blobs,
                  checked_trees |-> process_tree.checked_trees,
                  walked |-> process_tree.walked,
                  skipped_blobs |-> process_tree.skipped_blobs,
                  all_matches |-> process_tree.all_matches,
                  visited |-> FALSE, out |-> out, scans |-> scans,
                  descended |-> descended, panic |-> FALSE]
       IN  \E w \in {process(w0, settings, repo.tree[commit], commit, << >>)} :
           /\ checked_commits' = Insert(checked_commits, commit, w.visited)
           /\ process_tree' = [checked_paths |-> w.checked_paths,
                               checked_blobs |-> w.checked_blobs,
                               checked_trees |-> w.checked_trees,
                               walked |-> w.walked,
                               skipped_blobs |-> w.skipped_blobs,
                               all_matches |-> w.all_matches]
           /\ out' = w.out
           /\ scans' = w.scans
           /\ descended' = w.descended
           /\ invoked' = Append(invoked, commit)
           /\ pc' = IF w.panic THEN "panic" ELSE "walk"
    /\ idx' = idx + 1
    /\ UNCHANGED <<settings, lvars, repo, next_refs, enqueued>>

\* lines 246-268: the next frontier; the loop ends when it is empty
Expand ==
    /\ pc = "walk"
    /\ idx > Len(next_refs)
    /\ \E ids \in {NextIds(next_refs, checked_commits)} :
           /\ \A i \in 1 .. Len(ids) : find_commit(ids[i])
           /\ next_refs' = ids
           /\ enqueued' = Enqueue(enqueued, ids)
           /\ pc' = IF LoopExit(ids) THEN "done" ELSE "walk"
    /\ idx' = 1
    /\ UNCHANGED <<settings, out, lvars, repo, checked_commits,
                   process_tree, invoked, scans, descended>>

\* line 252: a parent that cannot be looked up ends the run with Err
ExpandFail ==
    /\ pc = "walk"
    /\ idx > Len(next_refs)
    /\ LET ids == NextIds(next_refs, checked_commits)
       IN  \E i \in 1 .. Len(ids) : ~find_commit(ids[i])
    /\ pc' = "error"
    /\ UNCHANGED <<settings, out, lvars, wvars>>

Next == SkipChecked \/ SkipNoTree \/ WalkCommit \/ Expand \/ ExpandFail

Init == Start({try_from(o) : o \in Opts({WalkPattern})}, Repos)

Spec == Init /\ [][Next]_vars

\* every commit graph, with one tree for every commit, and with each
\* irregularity at each reachable commit
ShapeRepos == UNION {{r \in SoundRepos(g) \cup FaultyRepos(g) :
                        \A c \in Commits : r.tree[c] \in {"R1", "R4"}} : g \in Graphs}

FairInit ==
    Start({try_from(o) : o \in {x \in Opts({WalkPattern}) :
                                  ~x.no_once_file /\ ~x.no_output_grouping}},
          ShapeRepos)

\* the loop is sequential code: a step that can be taken is taken
FairSpec == FairInit /\ [][Next]_vars /\ WF_vars(Next)

---------------------------------------------------------------------------
(* LineSpec: process_file on every buffer of Inputs, match by match        *)

LineCommit == "c1"
LinePath == <<"a.rs">>

LineInit ==
    /\ settings \in {try_from(o) : o \in {x \in Opts(Patterns) : ~x.no_once_file}}
    /\ input \in Inputs
    /\ pc = "decode"
    /\ out = << >>
    /\ k = 0
    /\ ret = << >>
    /\ visited = FALSE
    /\ line = NoLine
    /\ repo = IdleRepo
    /\ checked_commits = EmptyMap
    /\ next_refs = << >>
    /\ idx = 1
    /\ process_tree = NewProcessTree
    /\ invoked = << >>
    /\ scans = << >>
    /\ descended = << >>
    /\ enqueued = [c \in Commits |-> 0]

Founds == FileScan(settings.pattern, input)

\* lines 282-286: content that is not UTF-8 yields no match at all
DecodeFail ==
    /\ pc = "decode"
    /\ ~from_utf8(input)
    /\ pc' = "returned"
    /\ UNCHANGED <<settings, out, lvars, wvars>>

DecodeOk ==
    /\ pc = "decode"
    /\ from_utf8(input)
    /\ pc' = "matching"
    /\ UNCHANGED <<settings, out, lvars, wvars>>

LineStepResult ==
    MatchStep([ret |-> ret, out |-> out, visited |-> visited,
               panic |-> FALSE, line |-> line],
              settings, LineCommit, LinePath, Founds[k + 1])

\* one match: push, scan, print
MatchPrinted ==
    /\ pc = "matching"
    /\ k < Len(Founds)
    /\ ~LineStepResult.panic
    /\ ret' = LineStepResult.ret
    /\ out' = LineStepResult.out
    /\ visited' = LineStepResult.visited
    /\ line' = LineStepResult.line
    /\ k' = k + 1
    /\ UNCHANGED <<settings, pc, input, wvars>>

\* one match whose slice &input_str[line_start..line_end] panics
MatchPanicked ==
    /\ pc = "matching"
    /\ k < Len(Founds)
    /\ LineStepResult.panic
    /\ ret' = LineStepResult.ret
    /\ out' = LineStepResult.out
    /\ visited' = LineStepResult.visited
    /\ line' = LineStepResult.line
    /\ k' = k + 1
    /\ pc' = "panicked"
    /\ UNCHANGED <<settings, input, wvars>>

\* line 349
FileReturn ==
    /\ pc = "matching"
    /\ k = Len(Founds)
    /\ pc' = "returned"
    /\ UNCHANGED <<settings, out, lvars, wvars>>

LineNext == DecodeFail \/ DecodeOk \/ MatchPrinted \/ MatchPanicked \/ FileReturn

LineSpec == LineInit /\ [][LineNext]_vars

---------------------------------------------------------------------------
(* What the specification says of process_files_git (Spec, FairSpec)       *)

ParentSet(c) == SeqRange(repo.parents[c])

RECURSIVE ReachFix(_)
ReachFix(S) ==
    LET T == S \cup UNION {ParentSet(c) : c \in S}
    IN  IF T = S THEN S ELSE ReachFix(T)

\* the commits reachable from the starting commit through parent edges
Reachable == ReachFix({HeadCommit})

RECURSIVE Within(_)
\* the commits at most d parent edges away from the starting commit
Within(d) ==
    IF d = 0 THEN {HeadCommit}
    ELSE Within(d - 1) \cup UNION {ParentSet(c) : c \in Within(d - 1)}

\* shortest parent-edge distance of a reachable commit from the start
Dist(c) == CHOOSE d \in 0 .. Cardinality(Commits) :
               c \in Within(d) /\ \A e \in 0 .. (d - 1) : c \notin Within(e)

NoFault == repo.missing = {} /\ repo.notree = {}

\* C1: process() is called on the root tree of a commit at most once per
\* run, also for a commit that several parent-expansion paths reach.
C1_CommitWalkedAtMostOnce ==
    \A i, j \in 1 .. Len(invoked) : invoked[i] = invoked[j] => i = j

\* a finished run in which a walked commit came into a frontier twice
C1_Witness ==
    /\ pc = "done"
    /\ \E c \in SeqRange(invoked) : enqueued[c] >= 2

RECURSIVE FilesOf(_, _)
\* the file entries below tree t, with their paths
FilesOf(t, path) ==
    LET es == SeqRange(TreeEntries(t))
    IN  {[path |-> Append(path, e.name), name |-> e.name, id |-> e.id] :
            e \in {x \in es : x.kind = "blob"}}
        \cup UNION {FilesOf(e.id, Append(path, e.name)) :
                       e \in {x \in es : x.kind = "tree"}}

PatternCount(bytes) == Len(FileScan(settings.pattern, bytes))

\* a file name process() hands to process_file when the content is text
EligibleName(name) ==
    /\ name \notin settings.ignore_dirs
    /\ LowerExtension(name).some
    /\ LowerExtension(name).ext \in settings.extensions

\* c1 is the child B, c2 its only parent A; their root trees differ in one
\* file, which holds no match in either version; exactly one file holds the
\* pattern, once, and it is searchable
TwoCommitFixture ==
    /\ repo.parents["c1"] = <<"c2">>
    /\ repo.parents["c2"] = << >>
    /\ NoFault
    /\ LET tb == TreeEntries(repo.tree["c1"])
           ta == TreeEntries(repo.tree["c2"])
           hits == {f \in FilesOf(repo.tree["c1"], << >>) : PatternCount(f.id) > 0}
       IN  /\ Len(tb) = Len(ta)
           /\ \E j \in 1 .. Len(tb) :
                /\ \A i \in (1 .. Len(tb)) \ {j} : tb[i] = ta[i]
                /\ tb[j].name = ta[j].name
                /\ tb[j].kind = "blob" /\ ta[j].kind = "blob"
                /\ tb[j].id # ta[j].id
                /\ PatternCount(tb[j].id) = 0 /\ PatternCount(ta[j].id) = 0
           /\ Cardinality(hits) = 1
           /\ \A f \in hits : /\ PatternCount(f.id) = 1
                              /\ EligibleName(f.name)
                              /\ ~is_binary(f.id)

\* C5 as stated: on the two-commit fixture the run yields one match with
\* once_file and two matches, one per commit, without it.
C5_Original ==
    (pc = "done" /\ TwoCommitFixture) =>
        IF settings.once_file
        THEN Len(process_tree.all_matches) = 1
        ELSE /\ Len(process_tree.all_matches) = 2
             /\ {m.commit : m \in SeqRange(process_tree.all_matches)} = {"c1", "c2"}

\* C5 amended: on the two-commit fixture the run yields exactly one match,
\* owned by the child commit, with once_file and without it alike.
C5_OneMatchUnderBothSettings ==
    (pc = "done" /\ TwoCommitFixture) =>
        /\ Len(process_tree.all_matches) = 1
        /\ process_tree.all_matches[1].commit = "c1"

C5_Witness ==
    /\ pc = "done"
    /\ TwoCommitFixture
    /\ ~settings.once_file
    /\ process_tree.skipped_blobs > 0

\* C6: no file whose own name or one of whose directories is named in the
\* ignore set is handed to process_file.
C6_NothingScannedUnderIgnoredName ==
    \A i \in 1 .. Len(scans) :
        \A j \in 1 .. Len(scans[i].path) : scans[i].path[j] \notin settings.ignore_dirs

\* C7: when the run ends and no lookup of a parent failed, every reachable
\* commit is marked in checked_commits, and process() was called for every
\* reachable commit whose root tree resolves.
C7_AllReachableWalked ==
    (pc = "done" /\ repo.missing = {}) =>
        /\ Reachable \subseteq DOMAIN checked_commits
        /\ Reachable \ repo.notree \subseteq SeqRange(invoked)

\* a finished run over four reachable commits, one of them without a tree
C7_Witness ==
    /\ pc = "done"
    /\ Reachable = Commits
    /\ repo.notree # {}
    /\ Cardinality(SeqRange(invoked)) = 3

\* C8: the frontier loop ends: the next frontier comes out empty and the
\* run returns, or the run ends in the error of a failed lookup or in a
\* panic of process_file.
C8_LoopTerminates ==
    <>(\/ pc = "done" /\ next_refs = << >>
       \/ pc = "error"
       \/ pc = "panic")

\* a run over four reachable commits that returned
C8_Witness ==
    /\ pc = "done"
    /\ next_refs = << >>
    /\ Cardinality(SeqRange(invoked)) = 4

\* C9: commits are walked in non-decreasing distance from the start.
C9_WalkedByDistance ==
    \A i, j \in 1 .. Len(invoked) :
        i < j => Dist(invoked[i]) <= Dist(invoked[j])

\* a finished run in which a commit at distance 1 is also the parent of a
\* commit at distance 1, and a commit at distance 2 was walked
C9_Witness ==
    /\ pc = "done"
    /\ \E c, d \in SeqRange(invoked) :
          Dist(c) = 1 /\ Dist(d) = 1 /\ c \in ParentSet(d)
    /\ \E c \in SeqRange(invoked) : Dist(c) = 2

\* C10: a blob is handed to process_file at most once per run.
C10_BlobScannedAtMostOnce ==
    \A i, j \in 1 .. Len(scans) : scans[i].blob = scans[j].blob => i = j

\* a finished run that met a scanned blob again, in a commit other than
\* the one it was scanned for
C10_Witness ==
    /\ pc = "done"
    /\ process_tree.skipped_blobs > 0
    /\ \E i \in 1 .. Len(scans) : \E c \in SeqRange(invoked) :
          /\ c # scans[i].commit
          /\ \E f \in FilesOf(repo.tree[c], << >>) :
                f.id = scans[i].blob /\ f.path # scans[i].path

\* C11: with once_file, no relative path is handed to process_file twice in
\* a run, whatever content later commits hold under it.
C11_PathScannedAtMostOnce ==
    settings.once_file =>
        \A i, j \in 1 .. Len(scans) : scans[i].path = scans[j].path => i = j

\* a finished run with once_file in which a scanned path holds other content
\* in another walked commit
C11_Witness ==
    /\ pc = "done"
    /\ settings.once_file
    /\ \E i \in 1 .. Len(scans) : \E c \in SeqRange(invoked) :
          /\ c # scans[i].commit
          /\ \E f \in FilesOf(repo.tree[c], << >>) :
                /\ f.path = scans[i].path
                /\ f.id # scans[i].blob
                /\ EligibleName(f.name)
                /\ ~is_binary(f.id)
                /\ f.id \notin {scans[j].blob : j \in 1 .. Len(scans)}

\* the files below each root tree, evaluated once
RootIds == {"R1", "R2", "R3", "R4", "R5"}
StoreFiles == [t \in RootIds |-> FilesOf(t, << >>)] @@ << >>

\* the content a match entry was found in
BlobAt(commit, path) ==
    (CHOOSE f \in StoreFiles[repo.tree[commit]] : f.path = path).id

\* the reachable commits whose tree resolves and holds the blob under a
\* name that process() lets through to process_file
Holders(blob) ==
    {c \in Reachable \ repo.notree :
        \E f \in StoreFiles[repo.tree[c]] : f.id = blob /\ EligibleName(f.name)}

NearestHolder(c, blob) == \A d \in Holders(blob) : Dist(c) <= Dist(d)

\* C12 as stated: under every dedup setting, every match is owned by a
\* commit nearest to the start among the reachable commits that hold the
\* matched content under a searchable name.
C12_Original ==
    \A i \in 1 .. Len(process_tree.all_matches) :
        LET m == process_tree.all_matches[i]
        IN  NearestHolder(m.commit, BlobAt(m.commit, m.path))

\* C12 amended: without once_file, every match is owned by a commit nearest
\* to the start among the reachable commits that hold the matched content
\* under a searchable name.
C12_NearestOwnerWithoutOnceFile ==
    ~settings.once_file =>
        \A i \in 1 .. Len(process_tree.all_matches) :
            LET m == process_tree.all_matches[i]
            IN  NearestHolder(m.commit, BlobAt(m.commit, m.path))

\* a finished run without once_file with a match whose content is also
\* held, under a searchable name, by a commit farther from the start
C12_Witness ==
    /\ pc = "done"
    /\ ~settings.once_file
    /\ \E i \in 1 .. Len(process_tree.all_matches) :
          LET m == process_tree.all_matches[i]
          IN  \E d \in Holders(BlobAt(m.commit, m.path)) : Dist(d) > Dist(m.commit)

HeaderPos == {i \in 1 .. Len(out) : out[i].kind = "commit"}
LinePos == {i \in 1 .. Len(out) : out[i].kind = "line"}

\* the header a printed line stands under
HeaderOf(i) == CHOOSE h \in HeaderPos : h < i /\ \A g \in HeaderPos : g < i => g <= h

\* the match entry a printed line was printed for: lines and entries come
\* in the same order
EntryOf(i) == process_tree.all_matches[Cardinality({j \in LinePos : j <= i})]

\* C13: with output grouping, a commit's header is printed once if the
\* commit has a match and never otherwise, a match line follows it at once,
\* and every match line stands under the header of its own commit, so that
\* the lines of one commit are contiguous.
C13_HeaderOnceBeforeFirstMatch ==
    settings.output_grouping =>
        /\ \A h \in HeaderPos : h < Len(out) /\ out[h + 1].kind = "line"
        /\ \A g, h \in HeaderPos : out[g].commit = out[h].commit => g = h
        /\ \A i \in LinePos : \E h \in HeaderPos : h < i
        /\ pc # "panic" =>
              /\ Cardinality(LinePos) = Len(process_tree.all_matches)
              /\ \A i \in LinePos : out[HeaderOf(i)].commit = EntryOf(i).commit
              /\ {out[h].commit : h \in HeaderPos}
                    = {m.commit : m \in SeqRange(process_tree.all_matches)}

FileName(path) == path[Len(path)]

\* the entry at this path of the commit's tree is a file with this content
IsFileOf(commit, path, blob) ==
    \E f \in StoreFiles[repo.tree[commit]] : f.path = path /\ f.id = blob

HasListedExtension(name) ==
    StoreExtension[name].some /\ StoreExtension[name].ext \in settings.extensions

\* C14: process_file is called only for file entries whose content is not
\* binary and whose lower-cased extension is in the extension set, so no
\* match entry comes from a binary file, a file without extension or a file
\* with another extension.
C14_OnlyListedTextFilesScanned ==
    /\ \A i \in 1 .. Len(scans) :
          /\ IsFileOf(scans[i].commit, scans[i].path, scans[i].blob)
          /\ ~is_binary(scans[i].blob)
          /\ HasListedExtension(FileName(scans[i].path))
    /\ \A i \in 1 .. Len(process_tree.all_matches) :
          LET m == process_tree.all_matches[i]
          IN  /\ ~is_binary(BlobAt(m.commit, m.path))
              /\ HasListedExtension(FileName(m.path))
    /\ \A i \in LinePos : HasListedExtension(FileName(out[i].path))

\* a finished run that walked a tree holding the pattern in a binary file,
\* in a file without extension and in a file with an unlisted extension,
\* and scanned a file of the same tree whose extension is listed in
\* another case
C14_Witness ==
    /\ pc = "done"
    /\ \E c \in SeqRange(invoked) :
          /\ \E f \in StoreFiles[repo.tree[c]] :
                is_binary(f.id) /\ HasListedExtension(f.name) /\ 97 \in SeqRange(f.id)
          /\ \E f \in StoreFiles[repo.tree[c]] :
                ~LowerExtension(f.name).some /\ PatternCount(f.id) > 0
          /\ \E f \in StoreFiles[repo.tree[c]] :
                /\ LowerExtension(f.name).some
                /\ ~HasListedExtension(f.name)
                /\ PatternCount(f.id) > 0
          /\ \E i \in 1 .. Len(scans) :
                /\ scans[i].commit = c
                /\ extension(FileName(scans[i].path)).ext \notin settings.extensions

RECURSIVE DirsOf(_, _)
\* the directory entries below tree t, with their paths
DirsOf(t, path) ==
    LET ds == {e \in SeqRange(TreeEntries(t)) : e.kind = "tree"}
    IN  {[path |-> Append(path, e.name), id |-> e.id] : e \in ds}
        \cup UNION {DirsOf(e.id, Append(path, e.name)) : e \in ds}

StoreDirs == [t \in RootIds |-> DirsOf(t, << >>)] @@ << >>

\* C15: the entries of a tree are iterated at most once per run.
C15_TreeDescendedAtMostOnce ==
    \A i, j \in 1 .. Len(descended) : descended[i] = descended[j] => i = j

\* a finished run in which two walked commits hold one tree under different
\* paths, and two walked commits have the same root tree
C15_Witness ==
    /\ pc = "done"
    /\ \E c, d \in SeqRange(invoked) :
          /\ c # d
          /\ \E x \in StoreDirs[repo.tree[c]] : \E y \in StoreDirs[repo.tree[d]] :
                x.id = y.id /\ x.path # y.path /\ x.id \in SeqRange(descended)
    /\ \E c, d \in SeqRange(invoked) : c # d /\ repo.tree[c] = repo.tree[d]

\* C16: path-dedup stops at file entries only: when the run has returned,
\* every directory of every walked commit has been descended, with
\* once_file too, so that the files beneath it have been iterated.
C16_DirectoriesDescendedDespitePathDedup ==
    pc = "done" =>
        \A c \in SeqRange(invoked) :
            \A x \in StoreDirs[repo.tree[c]] : x.id \in SeqRange(descended)

\* C17 as stated: over a run every commit is placed in a frontier at most
\* once.
C17_Original == \A c \in Commits : enqueued[c] <= 1

\* C17 amended: no commit visited in an earlier frontier is placed in a
\* later one; a frontier may hold one commit several times, and every
\* occurrence after the first finds the commit visited.
C17_NoVisitedCommitInLaterFrontier ==
    \A i \in 1 .. Len(next_refs) :
        (i >= idx /\ pc = "walk" /\ contains_key(checked_commits, next_refs[i])) =>
            \E j \in 1 .. (i - 1) : next_refs[j] = next_refs[i]

\* a frontier that holds a commit twice, its first copy walked and its
\* second copy not yet reached
C17_Witness ==
    /\ pc = "walk"
    /\ idx <= Len(next_refs)
    /\ contains_key(checked_commits, next_refs[idx])
    /\ next_refs[idx] \in SeqRange(invoked)
    /\ enqueued[next_refs[idx]] >= 2

\* no lookup of a commit fails and no content makes process_file panic
OnlyTreeFailures ==
    repo.missing = {} /\ \A c \in Reachable : repo.tree[c] # "R4"

\* C18: a commit whose root tree does not resolve is skipped and the run
\* goes on: nothing is walked, matched or printed for it and, the run not
\* ending for another reason, it is marked visited, the other commits are
\* walked and its parents are placed in the next frontier.
C18_UnresolvedTreeSkipped ==
    \A c \in repo.notree :
        /\ c \notin SeqRange(invoked)
        /\ \A i \in 1 .. Len(process_tree.all_matches) :
              process_tree.all_matches[i].commit # c
        /\ \A i \in 1 .. Len(out) : out[i].commit # c
        /\ contains_key(checked_commits, c) => ~checked_commits[c]
        /\ OnlyTreeFailures => pc \in {"walk", "done"}
        /\ (pc = "done" /\ OnlyTreeFailures /\ c \in Reachable) =>
              /\ contains_key(checked_commits, c)
              /\ \A p \in ParentSet(c) :
                    enqueued[p] >= 1 /\ contains_key(checked_commits, p)
              /\ \A d \in Reachable \ repo.notree : d \in SeqRange(invoked)

\* a finished run in which the commit without tree came first in a frontier
\* of two and is the only way to one of the walked commits
C18_Witness ==
    /\ pc = "done"
    /\ \E c \in repo.notree : \E d, p \in SeqRange(invoked) :
          /\ repo.parents[HeadCommit] = <<c, d>>
          /\ ParentSet(p) = {}
          /\ p \in ParentSet(c)
          /\ \A e \in Commits \ {c} : p \notin ParentSet(e)

\* the reachable commits whose lookup fails
Lost == repo.missing \cap Reachable

\* C19: a failed lookup of an unvisited parent ends the run with an error
\* while the next frontier is built: no commit at the distance of the lost
\* commit or beyond is walked or matched, the run does not return Ok, and
\* what was matched and printed for the earlier frontiers stays.
C19_FailedLookupAbortsRun ==
    /\ \A m \in Lost :
          /\ ~contains_key(checked_commits, m)
          /\ \A c \in SeqRange(invoked) : Dist(c) < Dist(m)
          /\ \A i \in 1 .. Len(process_tree.all_matches) :
                Dist(process_tree.all_matches[i].commit) < Dist(m)
          /\ pc # "done"
    /\ pc = "error" =>
          /\ idx > Len(next_refs)
          /\ \E i \in 1 .. Len(next_refs) : \E m \in Lost :
                m \in ParentSet(next_refs[i]) /\ Dist(next_refs[i]) = Dist(m) - 1
          /\ \A c \in Reachable : Dist(c) < Dist(next_refs[1]) =>
                contains_key(checked_commits, c)
          /\ Cardinality(LinePos) = Len(process_tree.all_matches)

\* a run ended by the error after two frontiers were walked and matches
\* were printed, with a commit that resolves left unwalked
C19_Witness ==
    /\ pc = "error"
    /\ Len(invoked) >= 2
    /\ LinePos # {}
    /\ \E c \in Reachable \ (repo.missing \cup SeqRange(invoked)) :
          \E m \in Lost : Dist(c) = Dist(m)

\* the contents that some reachable commit holds in a file process() lets
\* through to process_file
SearchableBlobs ==
    {f.id : f \in {x \in UNION {StoreFiles[repo.tree[c]] : c \in Reachable} :
                      EligibleName(x.name) /\ ~is_binary(x.id)}}

\* C20: without once_file and without failing lookups, when the run has
\* returned every content held under a searchable file name by a reachable
\* commit has been handed to process_file exactly once.
C20_EverySearchableBlobScannedOnce ==
    (pc = "done" /\ ~settings.once_file /\ NoFault) =>
        /\ {scans[i].blob : i \in 1 .. Len(scans)} = SearchableBlobs
        /\ \A b \in SearchableBlobs :
              Cardinality({i \in 1 .. Len(scans) : scans[i].blob = b}) = 1

\* a finished run without once_file over three commits in which a tree and
\* a blob were met again and a path came with two contents
C20_Witness ==
    /\ pc = "done"
    /\ ~settings.once_file
    /\ NoFault
    /\ Len(invoked) >= 3
    /\ process_tree.skipped_blobs > 0
    /\ process_tree.walked < Len(invoked) + Cardinality(UNION {StoreDirs[repo.tree[c]] : c \in Reachable})
    /\ \E i, j \in 1 .. Len(scans) : i # j /\ scans[i].path = scans[j].path

---------------------------------------------------------------------------
(* What the specification says of process_file (LineSpec)                  *)

\* the match the last MatchStep handled
LastFound == ret[Len(ret)]

NewlinesBefore(bytes, off) ==
    Cardinality({i \in 0 .. (off - 1) : bytes[i + 1] = NL})

\* offset of the byte after the last newline before `off`, or 0
ExpectedStart(bytes, off) ==
    LET before == {i \in 0 .. (off - 1) : bytes[i + 1] = NL}
    IN  IF before = {} THEN 0
        ELSE (CHOOSE i \in before : \A j \in before : j <= i) + 1

\* offset of the first newline at or after `off`, or the buffer's length
ExpectedEnd(bytes, off) ==
    LET after == {i \in off .. (Len(bytes) - 1) : bytes[i + 1] = NL}
    IN  IF after = {} THEN Len(bytes) ELSE MinOf(after)

\* C2: the line number reported for a match is 1 plus the number of newline
\* bytes strictly before the match's start offset.
C2_LineNumberCountsNewlinesBeforeStart ==
    (k > 0 /\ pc # "panicked") =>
        /\ Len(out) > 0
        /\ out[Len(out)].kind = "line"
        /\ out[Len(out)].line_number = 1 + NewlinesBefore(input, LastFound.start)

\* C3: the line text displayed for a match runs from the byte after the last
\* newline before the match start (or the buffer start) to the byte before
\* the first newline at or after the match end (or the buffer end).
C3_LineTextIsContainingLine ==
    (k > 0 /\ pc # "panicked") =>
        /\ Len(out) > 0
        /\ out[Len(out)].kind = "line"
        /\ out[Len(out)].text = Slice(input, ExpectedStart(input, LastFound.start),
                                      ExpectedEnd(input, LastFound.end))

\* C4: the line span of every match satisfies
\* 0 <= line_start <= line_end <= length of the text, line_end is computed
\* without wrap-around, and slicing the text with it does not panic.
C4_LineSpanWithinBuffer ==
    (k > 0) =>
        /\ 0 <= line.line_start
        /\ line.line_start <= line.line_end
        /\ line.line_end <= Len(input)
        /\ pc # "panicked"

====
